---- MODULE Spec2Model ----
(***************************************************************************)
(* Model of manim-ai's incremental script assembly (app/ai_clients.py),    *)
(* the render worker (app/workers.py, app/manim_runner.py), the segment    *)
(* log (app/database.py) and the round handling of the main window         *)
(* (app/ui_main.py).                                                       *)
(*                                                                         *)
(* Representation of text.  A Python str is modelled by the sequence of    *)
(* its lines, exactly str.split at newlines: a non-empty sequence, the empty*)
(* string being << <<>> >>.  A line is a sequence of tokens.  A token is   *)
(* an atomic piece of text, written as the TLA+ string of its characters;  *)
(* the text of a line is the concatenation of its tokens.  Whitespace is   *)
(* kept character by character: the token " " is one space, so an         *)
(* indentation of 8 is eight " " tokens.                                   *)
(* Three tokens are not spelled as in the source, because a TLA+ string    *)
(* cannot hold their characters: COMMENT_LINE stands for the Chinese       *)
(* comment of ai_clients.py line 230 ("# " and three CJK characters), and  *)
(* in FENCE and FENCE_PY each "~" stands for a backtick.                   *)
(***************************************************************************)
EXTENDS Naturals, Integers, Sequences, FiniteSets, TLC

\* ------------------------------------------------------------------------
\* Tokens
\* ------------------------------------------------------------------------

SECTION_MARKER == "# <<SECTION_BREAK>>"
NEXT_SECTION == "self.next_section()"
DEF_CONSTRUCT == "def construct(self):"
FROM_MANIM == "from manim import *"
IMPORT_X == "import x"
FENCE == "~~~"
FENCE_PY == "~~~python"
COMMENT_LINE == "# new section"
CLASS_S == "class S(Scene):"
CLASS_T == "class T(Scene):"
DEF_HELPER == "def helper(self):"

\* str.isspace() characters that occur inside a line
IsWs(tok) == tok \in {" ", "\t"}

\* n spaces
Ind(n) == [i \in 1..n |-> " "]

EmptyText == << <<>> >>

Min(S) == CHOOSE x \in S : \A y \in S : x <= y
Max(S) == CHOOSE x \in S : \A y \in S : x >= y

Front(s) == SubSeq(s, 1, Len(s) - 1)
Last(s) == s[Len(s)]

\* ------------------------------------------------------------------------
\* Python string primitives on lines and texts
\* ------------------------------------------------------------------------

\* `tok in line` for an atomic token
HasTok(line, tok) == \E i \in 1..Len(line) : line[i] = tok

\* `not line.strip()`
IsBlank(line) == \A i \in 1..Len(line) : IsWs(line[i])

\* len(line) - len(line.lstrip())
LeadingWs(line) ==
    IF IsBlank(line) THEN Len(line)
    ELSE Min({i \in 1..Len(line) : ~IsWs(line[i])}) - 1

\* line.lstrip(), line.rstrip(), line.strip()
LStripLine(line) == SubSeq(line, LeadingWs(line) + 1, Len(line))
RStripLine(line) ==
    IF IsBlank(line) THEN <<>>
    ELSE SubSeq(line, 1, Max({i \in 1..Len(line) : ~IsWs(line[i])}))
StripLine(line) == RStripLine(LStripLine(line))

\* line.startswith(n spaces)
StartsWithSpaces(line, n) == Len(line) >= n /\ \A i \in 1..n : line[i] = " "

\* text.strip(): leading and trailing blank lines go, the first remaining
\* line loses its leading and the last its trailing whitespace
Strip(text) ==
    LET nb == {i \in 1..Len(text) : ~IsBlank(text[i])} IN
    IF nb = {} THEN EmptyText
    ELSE LET lo == Min(nb)
             hi == Max(nb)
         IN [i \in 1..(hi - lo + 1) |->
               LET l == text[lo + i - 1]
                   l1 == IF i = 1 THEN LStripLine(l) ELSE l
               IN IF i = hi - lo + 1 THEN RStripLine(l1) ELSE l1]

\* text.splitlines(): as the split at newlines without a final empty line
SplitLines(text) == IF Last(text) = <<>> THEN Front(text) ELSE text

\* newline.join(lines)
Join(lines) == IF lines = <<>> THEN EmptyText ELSE lines

\* a + b for strings
TextCat(a, b) == Front(a) \o << Last(a) \o Head(b) >> \o Tail(b)

\* `tok in text`
TextHasTok(text, tok) == \E i \in 1..Len(text) : HasTok(text[i], tok)

\* number of occurrences of tok in text
RECURSIVE CountInLine(_, _)
CountInLine(line, tok) ==
    IF line = <<>> THEN 0
    ELSE (IF Head(line) = tok THEN 1 ELSE 0) + CountInLine(Tail(line), tok)
RECURSIVE CountTok(_, _)
CountTok(text, tok) ==
    IF text = <<>> THEN 0
    ELSE CountInLine(Head(text), tok) + CountTok(Tail(text), tok)

\* ------------------------------------------------------------------------
\* app/ai_clients.py
\* ------------------------------------------------------------------------

\* s.startswith(three backticks)
StartsWithFence(line) == Len(line) >= 1 /\ line[1] \in {FENCE, FENCE_PY}

\* mutant: the closing fence is left in
Mutant_strip_keeps_closer(code) ==
    LET stripped == Strip(code) IN
    IF StartsWithFence(stripped[1])
    THEN Join(Tail(SplitLines(stripped)))
    ELSE code

\* mutant: the first line goes whether it opens a fence or not
Mutant_strip_drops_first_line(code) ==
    LET lines == SplitLines(Strip(code)) IN
    IF lines = <<>> THEN EmptyText ELSE Join(Tail(lines))

_strip_code_fences(code) ==
    LET stripped == Strip(code) IN
    IF StartsWithFence(stripped[1])
    THEN LET lines1 == Tail(SplitLines(stripped))
             lines2 == IF lines1 # <<>> /\ StartsWithFence(StripLine(Last(lines1)))
                       THEN Front(lines1) ELSE lines1
         IN Join(lines2)
    ELSE code

\* line.startswith("from ") or line.startswith("import ")
IsImportLine(line) == Len(line) >= 1 /\ line[1] \in {FROM_MANIM, IMPORT_X}

RECURSIVE DropImports(_)
DropImports(lines) ==
    IF lines # <<>> /\ IsImportLine(Head(lines)) THEN DropImports(Tail(lines))
    ELSE lines

sanitize_code(code, previous_code) ==
    LET cleaned == Strip(_strip_code_fences(code)) IN
    IF Strip(previous_code) # EmptyText
    THEN Strip(Join(DropImports(SplitLines(cleaned))))
    ELSE LET withImport == IF ~TextHasTok(cleaned, FROM_MANIM)
                           THEN TextCat(<< <<FROM_MANIM>>, <<>>, <<>> >>, cleaned)
                           ELSE cleaned
         IN TextCat(withImport, << <<>>, <<>> >>)

_remove_common_indent(code) ==
    LET lines == SelectSeq(SplitLines(code), LAMBDA l : ~IsBlank(l)) IN
    IF lines = <<>> THEN EmptyText
    ELSE LET min_indent == Min({LeadingWs(lines[i]) : i \in 1..Len(lines)})
         IN Strip(Join([i \in 1..Len(lines) |->
                IF Len(lines[i]) > min_indent
                THEN SubSeq(lines[i], min_indent + 1, Len(lines[i]))
                ELSE lines[i]]))

\* line.startswith(four spaces) or line.startswith(tab)
StartsIndented(line) == StartsWithSpaces(line, 4) \/ (Len(line) >= 1 /\ line[1] = "\t")

\* The offset is the Python list index (0-based) at which the block goes in,
\* which is the number of lines that stay before it.
_find_construct_insert_position(lines) ==
    LET defs == {i \in 1..Len(lines) : HasTok(lines[i], DEF_CONSTRUCT)}
        indented == {i \in 1..Len(lines) :
                        /\ defs # {}
                        /\ i >= Min(defs)
                        /\ StartsIndented(lines[i])
                        /\ ~IsBlank(lines[i])}
    IN IF indented # {} THEN Max(indented)
       ELSE IF defs # {} THEN Min(defs)
       ELSE Len(lines)

\* mutant: the lines with self.next_section() are kept
Mutant_strip_markers_only(code) ==
    LET cleaned_lines == SelectSeq(code, LAMBDA l : ~HasTok(l, SECTION_MARKER))
    IN TextCat(Strip(Join(cleaned_lines)), << <<>>, <<>> >>)

_strip_markers_and_sections(code) ==
    LET cleaned_lines == SelectSeq(code, LAMBDA l :
            ~HasTok(l, SECTION_MARKER) /\ ~HasTok(StripLine(l), NEXT_SECTION))
    IN TextCat(Strip(Join(cleaned_lines)), << <<>>, <<>> >>)

\* mutant: the first sentinel is rewritten, the stray ones are left in
Mutant_replace_first_marker_only(code) ==
    LET marker_indices == {i \in 1..Len(code) : HasTok(code[i], SECTION_MARKER)} IN
    IF marker_indices = {} THEN code
    ELSE LET first_idx == Min(marker_indices)
             indent == SubSeq(code[first_idx], 1, LeadingWs(code[first_idx]))
         IN [code EXCEPT ![first_idx] = indent \o <<NEXT_SECTION>>]

\* mutant: the directive is written at column 0
Mutant_directive_loses_indent(code) ==
    LET marker_indices == {i \in 1..Len(code) : HasTok(code[i], SECTION_MARKER)} IN
    IF marker_indices = {} THEN code
    ELSE LET first_idx == Min(marker_indices)
             replaced == [code EXCEPT ![first_idx] = <<NEXT_SECTION>>]
         IN SelectSeq(replaced, LAMBDA l : ~HasTok(l, SECTION_MARKER))

_replace_section_marker(code) ==
    LET marker_indices == {i \in 1..Len(code) : HasTok(code[i], SECTION_MARKER)} IN
    IF marker_indices = {} THEN code
    ELSE LET first_idx == Min(marker_indices)
             indent == SubSeq(code[first_idx], 1, LeadingWs(code[first_idx]))
             keep == {i \in 1..Len(code) : i \notin marker_indices \/ i = first_idx}
             replaced == [i \in 1..Len(code) |->
                            IF i = first_idx THEN indent \o <<NEXT_SECTION>> ELSE code[i]]
             Pick[i \in 0..Len(code)] ==
                 IF i = 0 THEN <<>>
                 ELSE IF i \in keep THEN Append(Pick[i - 1], replaced[i]) ELSE Pick[i - 1]
         IN Join(Pick[Len(code)])

\* mutant: the text before the sentinel is kept with the rest
Mutant_text_before_marker_kept(text) == text

\* cleaned.split(SECTION_MARKER, 1)[1]: what follows the first occurrence
AfterFirstMarker(text) ==
    LET li == Min({i \in 1..Len(text) : HasTok(text[i], SECTION_MARKER)})
        k == Min({j \in 1..Len(text[li]) : text[li][j] = SECTION_MARKER})
    IN << SubSeq(text[li], k + 1, Len(text[li])) >> \o SubSeq(text, li + 1, Len(text))

\* mutant: the new content goes in with the indentation it came with
Mutant_content_not_indented(cleaned) ==
    IF cleaned = EmptyText THEN <<>>
    ELSE [i \in 1..Len(cleaned) |-> IF ~IsBlank(cleaned[i]) THEN cleaned[i] ELSE <<>>]

\* lines 235-240: the re-indented lines of the new content
IndentedContent(cleaned) ==
    IF cleaned = EmptyText THEN <<>>
    ELSE [i \in 1..Len(cleaned) |->
            IF ~IsBlank(cleaned[i])
            THEN (IF StartsWithSpaces(cleaned[i], 8) THEN cleaned[i]
                  ELSE Ind(8) \o cleaned[i])
            ELSE <<>>]

\* mutant: the block overwrites the line at the offset instead of going in
\* before it
Mutant_splice_overwrites_line(existing_code, cleaned0) ==
    LET cleaned == IF TextHasTok(cleaned0, SECTION_MARKER)
                   THEN _remove_common_indent(AfterFirstMarker(cleaned0))
                   ELSE cleaned0
        lines == existing_code
        insert_pos == _find_construct_insert_position(lines)
        new_section_lines ==
            << <<>>,
               Ind(8) \o <<COMMENT_LINE>>,
               Ind(8) \o <<SECTION_MARKER>>,
               <<>> >> \o IndentedContent(cleaned)
    IN SubSeq(lines, 1, insert_pos) \o new_section_lines
           \o SubSeq(lines, insert_pos + 2, Len(lines))

\* lines 217-242: the previous text with the block spliced in, before the
\* sentinels are finalized
SplicedText(existing_code, cleaned0) ==
    LET cleaned == IF TextHasTok(cleaned0, SECTION_MARKER)
                   THEN _remove_common_indent(AfterFirstMarker(cleaned0))
                   ELSE cleaned0
        lines == existing_code
        insert_pos == _find_construct_insert_position(lines)
        new_section_lines ==
            << <<>>,
               Ind(8) \o <<COMMENT_LINE>>,
               Ind(8) \o <<SECTION_MARKER>>,
               <<>> >> \o IndentedContent(cleaned)
    IN SubSeq(lines, 1, insert_pos) \o new_section_lines
           \o SubSeq(lines, insert_pos + 1, Len(lines))

ensure_section_addition(existing_code, ai_response) ==
    LET cleaned0 == Strip(_strip_code_fences(ai_response)) IN
    IF Strip(existing_code) = EmptyText
    THEN _strip_markers_and_sections(cleaned0)
    ELSE _replace_section_marker(SplicedText(existing_code, cleaned0))

\* ------------------------------------------------------------------------
\* app/manim_runner.py
\* ------------------------------------------------------------------------

IsSceneClassTok(tok) == tok \in {CLASS_S, CLASS_T}
\* match.group(1) of a match on tok
SceneClassName(tok) == IF tok = CLASS_S THEN "S" ELSE "T"

\* mutant: a name is returned whether the pattern matches or not
Mutant_scene_always_found(code) == "S"

\* SCENE_CLASS_RE.search(code): the name in the first match in reading
\* order, "" if there is none (extract_scene_class raises RenderError then)
extract_scene_class(code) ==
    LET ls == {i \in 1..Len(code) : \E j \in 1..Len(code[i]) : IsSceneClassTok(code[i][j])} IN
    IF ls = {} THEN ""
    ELSE LET l == code[Min(ls)]
             j == Min({k \in 1..Len(l) : IsSceneClassTok(l[k])})
         IN SceneClassName(l[j])

\* ------------------------------------------------------------------------
\* Bounds and inputs
\* ------------------------------------------------------------------------

\* ids of the rows of the segments table, those a start of the program
\* finds and those a session adds to them (AUTOINCREMENT ids 1..MaxSegmentId)
MaxSegmentId == 2
\* ids of the rows a session creates that begins at the first start of the
\* program, on an empty table
MaxFirstStartId == 3
\* section files a render pass may leave in the sections directory
NumSectionFiles == 2
\* lines of a generated continuation fragment
MaxFragLines == 2
\* body lines of a generated scene program
MaxBodyLines == 2

Workspaces == {"default", "temp"}
\* sorted(...) of workspace names in _list_workspaces
WorkspaceRank(w) == IF w = "default" THEN 1 ELSE 2

\* File paths: the empty string, the whole-program video, a section file.
\* Section files are named by their serial number; sorting by name is
\* sorting by number.
NoPath == <<>>
WholePath == <<"render.mp4">>
SectionPath(k) == <<"sections", k>>
SectionNames == 1..NumSectionFiles

SeqsUpTo(S, n) == UNION {[1..k -> S] : k \in 0..n}

\* lines a generator may put into a fragment
FragLines ==
    { <<>>,
      <<SECTION_MARKER>>,
      Ind(4) \o <<SECTION_MARKER>>,
      <<"b = 2">>,
      Ind(4) \o <<"b = 2">>,
      Ind(8) \o <<"c = 3">>,
      <<NEXT_SECTION>>,
      <<"b = 2", " ", SECTION_MARKER>>,
      <<FENCE>>,
      <<IMPORT_X>>,
      <<CLASS_T>>,
      Ind(4) \o <<DEF_CONSTRUCT>> }

Fragments == SeqsUpTo(FragLines, MaxFragLines) \ {<<>>}

\* whole scene programs a generator may return: in the 4-space style, with
\* and without a body and a second method, one in the 1-space style and one
\* whose construct method is written on a single line
BodyLines ==
    { Ind(8) \o <<"a = 1">>,
      Ind(8) \o <<NEXT_SECTION>>,
      Ind(8) \o <<SECTION_MARKER>> }
Tails ==
    { <<>>,
      << <<>> >>,
      << Ind(4) \o <<DEF_HELPER>>, Ind(8) \o <<"pass">> >> }
Programs ==
    { head \o << <<CLASS_S>>, Ind(4) \o <<DEF_CONSTRUCT>> >> \o body \o tail :
        head \in { <<>>, << <<FROM_MANIM>> >> },
        body \in SeqsUpTo(BodyLines, MaxBodyLines),
        tail \in Tails }
    \cup { << <<CLASS_S>>, Ind(4) \o <<"pass">> >> }
    \cup { << <<CLASS_S>>, Ind(1) \o <<DEF_CONSTRUCT>>, Ind(2) \o <<"a = 1">> >> }
    \cup { << <<CLASS_S>>, Ind(4) \o <<DEF_CONSTRUCT, " ", "pass">>,
               Ind(4) \o <<DEF_HELPER>>, Ind(8) \o <<"pass">> >> }
FencedPrograms == { << <<FENCE_PY>> >> \o p \o << <<FENCE>> >> : p \in Programs }

\* a fragment with a nested block, in the 4-space style
F3 == << <<SECTION_MARKER>>,
         <<"for i in r:">>,
         Ind(4) \o <<"if i:">>,
         Ind(8) \o <<"c = 3">> >>

\* a fragment nested four blocks deep
F4 == << <<"for i in r:">>,
         Ind(4) \o <<"if i:">>,
         Ind(8) \o <<"for j in r:">>,
         Ind(12) \o <<"if j:">>,
         Ind(16) \o <<"c = 3">> >>

\* a fenced block quoted inside a fence
F5 == << <<FENCE>>, <<FENCE_PY>>, <<"b = 2">>, <<FENCE>>, <<FENCE>> >>

\* what the generation service may return to the assembler harness
AsmContents == Fragments \cup Programs \cup FencedPrograms \cup {EmptyText, F3, F4, F5}

\* what the generation service may return in the application model: a
\* scene program, a fragment below the sentinel, or nothing
P0 == << <<CLASS_S>>, Ind(4) \o <<DEF_CONSTRUCT>>, Ind(8) \o <<"a = 1">> >>
F1 == << <<SECTION_MARKER>>, Ind(4) \o <<"b = 2">> >>
AppContents == {P0, F1, EmptyText}
\* a fragment that echoes the directive, for the assembler
F2 == << <<"b = 2">>, <<NEXT_SECTION>> >>

\* ------------------------------------------------------------------------
\* State
\* ------------------------------------------------------------------------

VARIABLES
    db,               \* rows of the segments table
    next_id,          \* next AUTOINCREMENT id of the segments table
    dirs,             \* workspace directories under jobs_dir
    active_workspace, \* MainWindow._active_workspace
    current_segment,  \* MainWindow._current_segment (None is NoSegment)
    worker_thread,    \* MainWindow._worker_thread: "none", "running", "finished"
    generate_btn,     \* generate_btn.isEnabled()
    w_pc,             \* position of RenderWorker.run
    w_prev,           \* RenderWorker._previous_code
    w_code,           \* the local variable code of RenderWorker.run
    w_resp,           \* history: the content generate_manim_code returned
    signal,           \* the finished/failed signal queued for the main thread
    playing,          \* source of the media player
    notice,           \* the message box shown by the handler of the main thread
                      \* that ran last, "none" when it showed none
    w_job_dir,        \* RenderWorker._job_dir: the workspace of the directory
    w_video,          \* the local variable video_path of render_manim_scene
    w_sections,       \* the local variable section_videos of render_manim_scene
    thread_quit,      \* thread.quit was delivered to the thread of the worker
    ui_pc,            \* position of the main thread inside _delete_workspace,
                      \* _on_failed or _on_generate; "idle" in the event loop
    ui_ws             \* the local variable workspace of _delete_workspace

vars == <<db, next_id, dirs, active_workspace, current_segment, worker_thread,
          generate_btn, w_pc, w_prev, w_code, w_resp, signal, playing,
          notice, w_job_dir, w_video, w_sections, thread_quit, ui_pc, ui_ws>>

NoSegment == [id |-> 0, workspace |-> "", segment_index |-> 0]
NoSignal == [type |-> "none"]
NoWorkspace == "none"
\* the texts of the message boxes of _on_generate and _delete_workspace
BUSY == "busy"
NEED_MODEL == "need_model"
NO_WORKSPACE == "no_workspace"
WORKSPACE_DELETED == "workspace_deleted"
DELETE_FAILED == "delete_failed"
\* failed.emit(str(exc)): the messages stand for the texts of the exceptions
\* of generate_manim_code, extract_scene_class and run_manim
AI_ERROR == "ai_error"
NO_SCENE == "no_scene"
RENDER_ERROR == "render_error"
\* the text of the OSError of write_text when the job directory is gone
WRITE_ERROR == "write_error"
\* the message of the OSError that the glob of find_section_videos raises
FIND_ERROR == "find_error"
\* the text of the FileExistsError of job_dir.mkdir in
\* write_cumulative_script, and of output_dir.mkdir in run_manim
MKDIR_ERROR == "mkdir_error"
OUTPUT_MKDIR_ERROR == "output_mkdir_error"
FailureMessages == {AI_ERROR, NO_SCENE, RENDER_ERROR, WRITE_ERROR, FIND_ERROR,
                    MKDIR_ERROR, OUTPUT_MKDIR_ERROR}

\* the positions of RenderWorker.run before it emits its signal
RunPositions == {"started", "generated", "assembled", "job_dir_made", "script_written",
                 "rendering", "manim_done", "rendered"}
\* mutant: the exception is swallowed and nothing is emitted
Mutant_failure_not_emitted(message) == [type |-> "none"]
FailedSignal(message) == [type |-> "failed", message |-> message]

\* ------------------------------------------------------------------------
\* app/database.py
\* ------------------------------------------------------------------------

RowsOf(rows, workspace) == {r \in rows : r.workspace = workspace}

\* mutant: the highest index is taken again
Mutant_index_without_increment(rows, workspace) ==
    IF RowsOf(rows, workspace) = {} THEN 0
    ELSE Max({r.segment_index : r \in RowsOf(rows, workspace)})

\* SELECT COALESCE(MAX(segment_index), -1) + 1
NextSegmentIndex(rows, workspace) ==
    IF RowsOf(rows, workspace) = {} THEN 0
    ELSE Max({r.segment_index : r \in RowsOf(rows, workspace)}) + 1

create_segment(rows, id, workspace) ==
    rows \cup {[id |-> id, workspace |-> workspace,
                segment_index |-> NextSegmentIndex(rows, workspace),
                cumulative_code |-> EmptyText, section_video_path |-> NoPath]}

\* mutant: the result is written to the records of the active workspace
\* as well (UPDATE without the WHERE clause)
Mutant_update_every_row(rows, segment_id, cumulative_code, section_video_path) ==
    {[r EXCEPT !.cumulative_code = cumulative_code,
               !.section_video_path = section_video_path] : r \in rows}

update_segment_render(rows, segment_id, cumulative_code, section_video_path) ==
    {IF r.id = segment_id
     THEN [r EXCEPT !.cumulative_code = cumulative_code,
                    !.section_video_path = section_video_path]
     ELSE r : r \in rows}

\* ORDER BY segment_index DESC LIMIT 1; an empty text if there is no row
get_latest_cumulative_code(rows, workspace) ==
    IF RowsOf(rows, workspace) = {} THEN EmptyText
    ELSE LET top == Max({r.segment_index : r \in RowsOf(rows, workspace)})
             row == CHOOSE r \in RowsOf(rows, workspace) : r.segment_index = top
         IN row.cumulative_code

\* mutant: the DELETE finds no row
Mutant_delete_segment_keeps_row(rows, segment_id) == rows

delete_segment(rows, segment_id) == {r \in rows : r.id # segment_id}

delete_workspace_data(rows, workspace) == {r \in rows : r.workspace # workspace}

\* ------------------------------------------------------------------------
\* app/manim_runner.py, render pass
\* ------------------------------------------------------------------------

\* sorted(section_files, key=name): the names of a set in ascending order
RECURSIVE SortedSeq(_)
SortedSeq(S) == IF S = {} THEN <<>> ELSE <<Min(S)>> \o SortedSeq(S \ {Min(S)})

\* sorted(list, key=name) by insertion
RECURSIVE InsertSorted(_, _)
InsertSorted(x, s) ==
    IF s = <<>> THEN <<x>>
    ELSE IF x <= Head(s) THEN <<x>> \o s
    ELSE <<Head(s)>> \o InsertSorted(x, Tail(s))
RECURSIVE sorted(_)
sorted(s) == IF s = <<>> THEN <<>> ELSE InsertSorted(Head(s), sorted(Tail(s)))

find_section_videos(files) == SortedSeq(files)

\* ------------------------------------------------------------------------
\* app/workers.py
\* ------------------------------------------------------------------------

\* generate_manim_code: the provider raises on an empty content or on a
\* connection error; otherwise the content is returned as it is
WorkerGenerate(contents) ==
    /\ w_pc = "started"
    /\ \/ \E content \in contents :
            /\ content # EmptyText
            /\ w_code' = content
            /\ w_resp' = content
            /\ w_pc' = "generated"
            /\ signal' = signal
       \/ /\ w_code' = EmptyText
          /\ w_resp' = EmptyText
          /\ w_pc' = "done"
          /\ signal' = FailedSignal(AI_ERROR)
    /\ UNCHANGED <<db, next_id, dirs, active_workspace, current_segment, worker_thread,
                   generate_btn, w_prev, playing, notice,
                   w_job_dir, ui_pc, ui_ws>>
    /\ UNCHANGED <<w_video, w_sections, thread_quit>>

\* lines 54-56 of RenderWorker.run
WorkerAssemble ==
    /\ w_pc = "generated"
    /\ w_code' = ensure_section_addition(w_prev, sanitize_code(w_code, w_prev))
    /\ w_pc' = "assembled"
    /\ UNCHANGED <<db, next_id, dirs, active_workspace, current_segment, worker_thread,
                   generate_btn, w_prev, w_resp, signal, playing, notice,
                   w_job_dir, ui_pc, ui_ws>>
    /\ UNCHANGED <<w_video, w_sections, thread_quit>>

\* lines 123-124 of render_manim_scene and line 37 of
\* write_cumulative_script: extract_scene_class raises before anything is
\* written; otherwise the job directory of the worker is made.  Path.mkdir
\* raises FileExistsError when the directory was there at os.mkdir and
\* _delete_workspace removed it before is_dir looked: the directory is not
\* made and run emits failed.
WorkerRenderStart ==
    /\ w_pc = "assembled"
    /\ IF extract_scene_class(w_code) = ""
       THEN /\ w_pc' = "done"
            /\ w_code' = EmptyText
            /\ w_resp' = EmptyText
            /\ signal' = FailedSignal(NO_SCENE)
            /\ dirs' = dirs
       ELSE \/ /\ w_pc' = "job_dir_made"
               /\ dirs' = dirs \cup {w_job_dir}
               /\ UNCHANGED <<w_code, w_resp, signal>>
            \/ /\ w_job_dir \notin dirs
               /\ w_pc' = "done"
               /\ w_code' = EmptyText
               /\ w_resp' = EmptyText
               /\ signal' = FailedSignal(MKDIR_ERROR)
               /\ dirs' = dirs
    /\ UNCHANGED <<db, next_id, active_workspace, current_segment, worker_thread,
                   generate_btn, w_prev, playing, notice, w_job_dir, w_video,
                   w_sections, thread_quit, ui_pc, ui_ws>>

\* lines 38-39 of write_cumulative_script: write_text raises when the job
\* directory was removed since line 37
WorkerWriteScript ==
    /\ w_pc = "job_dir_made"
    /\ IF w_job_dir \in dirs
       THEN /\ w_pc' = "script_written"
            /\ UNCHANGED <<w_code, w_resp, signal>>
       ELSE /\ w_pc' = "done"
            /\ w_code' = EmptyText
            /\ w_resp' = EmptyText
            /\ signal' = FailedSignal(WRITE_ERROR)
    /\ UNCHANGED <<db, next_id, dirs, active_workspace, current_segment, worker_thread,
                   generate_btn, w_prev, playing, notice, w_job_dir, w_video,
                   w_sections, thread_quit, ui_pc, ui_ws>>

\* lines 74-77 of run_manim: the job directory is made again and manim is
\* started; or the mkdir of line 74 raises as the one of line 37 does, and
\* manim is never started
WorkerStartManim ==
    /\ w_pc = "script_written"
    /\ \/ /\ w_pc' = "rendering"
          /\ dirs' = dirs \cup {w_job_dir}
          /\ UNCHANGED <<w_code, w_resp, signal>>
       \/ /\ w_job_dir \notin dirs
          /\ w_pc' = "done"
          /\ w_code' = EmptyText
          /\ w_resp' = EmptyText
          /\ signal' = FailedSignal(OUTPUT_MKDIR_ERROR)
          /\ dirs' = dirs
    /\ UNCHANGED <<db, next_id, active_workspace, current_segment, worker_thread,
                   generate_btn, w_prev, playing, notice,
                   w_job_dir, w_video, w_sections, thread_quit, ui_pc, ui_ws>>

\* manim, running, writes a file into a job directory that was removed: the
\* directory is there again
ManimWrites ==
    /\ w_pc = "rendering"
    /\ w_job_dir \notin dirs
    /\ dirs' = dirs \cup {w_job_dir}
    /\ UNCHANGED <<db, next_id, active_workspace, current_segment, worker_thread,
                   generate_btn, w_pc, w_prev, w_code, w_resp, signal, playing, notice,
                   w_job_dir, w_video, w_sections, thread_quit, ui_pc, ui_ws>>

\* lines 89-95 of run_manim: the newest render.mp4 under the job directory,
\* and when manim wrote no file of that name the newest mp4 of any name,
\* which may be a section file
run_manim(files) == {WholePath} \cup {SectionPath(k) : k \in files}

\* lines 77-95 of run_manim: manim ends; a timeout, an exit code or a job
\* directory without a video raise, and run emits failed; otherwise the
\* path of a video under the job directory is returned
WorkerManimReturns ==
    /\ w_pc = "rendering"
    /\ \/ /\ w_pc' = "done"
          /\ w_code' = EmptyText
          /\ w_resp' = EmptyText
          /\ signal' = FailedSignal(RENDER_ERROR)
          /\ w_video' = w_video
       \/ /\ w_job_dir \in dirs
          /\ \E video_path \in run_manim(SectionNames) :
                w_video' = video_path
          /\ w_pc' = "manim_done"
          /\ UNCHANGED <<w_code, w_resp, signal>>
    /\ UNCHANGED <<db, next_id, dirs, active_workspace, current_segment, worker_thread,
                   generate_btn, w_prev, playing, notice, w_job_dir, w_sections,
                   thread_quit, ui_pc, ui_ws>>

\* line 131 of render_manim_scene: the files of the sections directory that
\* find_section_videos looks at, which need not be the directory of the video
\* that run_manim returned; none when the job directory is gone or was made
\* anew.  When the sections directory is removed while find_section_videos
\* is at work, by an rmtree that removes the job directory or by one that
\* fails after it and leaves the job directory, the glob of line 112 raises
\* and run emits failed.
WorkerFindSections ==
    /\ w_pc = "manim_done"
    /\ \/ /\ w_pc' = "rendered"
          /\ IF w_job_dir \in dirs
             THEN \E files \in SUBSET SectionNames :
                     w_sections' = find_section_videos(files)
             ELSE w_sections' = find_section_videos({})
          /\ UNCHANGED <<w_code, w_resp, signal, w_video>>
       \/ /\ w_pc' = "done"
          /\ w_code' = EmptyText
          /\ w_resp' = EmptyText
          /\ w_video' = NoPath
          /\ w_sections' = <<>>
          /\ signal' = FailedSignal(FIND_ERROR)
    /\ UNCHANGED <<db, next_id, dirs, active_workspace, current_segment, worker_thread,
                   generate_btn, w_prev, playing, notice, w_job_dir, thread_quit,
                   ui_pc, ui_ws>>

\* lines 64-71 of RenderWorker.run: finished is emitted with the result;
\* the locals of run are gone when it returns
WorkerEmitFinished ==
    /\ w_pc = "rendered"
    /\ w_pc' = "done"
    /\ signal' = [type |-> "finished",
                  manim_code |-> w_code,
                  video_path |-> w_video,
                  section_videos |-> w_sections]
    /\ w_code' = EmptyText
    /\ w_resp' = EmptyText
    /\ w_video' = NoPath
    /\ w_sections' = <<>>
    /\ UNCHANGED <<db, next_id, dirs, active_workspace, current_segment, worker_thread,
                   generate_btn, w_prev, playing, notice, w_job_dir, thread_quit,
                   ui_pc, ui_ws>>

\* thread.quit, connected to finished and failed behind the handler of the
\* window, is delivered by the event loop of the main thread, also by the
\* loop of the message box of _on_failed
ThreadQuit ==
    /\ worker_thread = "running"
    /\ w_pc = "done"
    /\ ~thread_quit
    /\ \/ ui_pc = "idle" /\ signal = NoSignal
       \/ ui_pc = "failed_box"
    /\ thread_quit' = TRUE
    /\ UNCHANGED <<db, next_id, dirs, active_workspace, current_segment, worker_thread,
                   generate_btn, w_pc, w_prev, w_code, w_resp, signal, playing, notice,
                   w_job_dir, w_video, w_sections, ui_pc, ui_ws>>

\* after quit the thread leaves its loop by itself, at any moment of the
\* main thread, and thread.finished deletes the worker, whose fields stay
\* as long as _current_worker holds it
ThreadExit ==
    /\ worker_thread = "running"
    /\ w_pc = "done"
    /\ thread_quit
    /\ worker_thread' = "finished"
    /\ w_pc' = "none"
    /\ thread_quit' = FALSE
    /\ w_prev' = IF signal # NoSignal THEN w_prev ELSE EmptyText
    /\ w_job_dir' = IF signal # NoSignal THEN w_job_dir ELSE NoWorkspace
    /\ UNCHANGED <<db, next_id, dirs, active_workspace, current_segment,
                   generate_btn, w_code, w_resp, signal, playing, notice,
                   w_video, w_sections, ui_pc, ui_ws>>

\* ------------------------------------------------------------------------
\* app/ui_main.py
\* ------------------------------------------------------------------------

_set_active_workspace_dirs(ds, workspace) == ds \cup {workspace}

\* _list_workspaces()[0]: the first directory name in sorted order
FirstWorkspace(ds) ==
    CHOOSE w \in ds : \A v \in ds : WorkspaceRank(w) <= WorkspaceRank(v)

SwitchWorkspace ==
    /\ ui_pc = "idle"
    /\ \E workspace \in Workspaces :
        /\ active_workspace' = workspace
        /\ dirs' = _set_active_workspace_dirs(dirs, workspace)
        /\ notice' = "none"
        /\ UNCHANGED <<db, next_id, current_segment, worker_thread, generate_btn,
                       w_pc, w_prev, w_code, w_resp, signal, playing,
                       w_job_dir, ui_pc, ui_ws>>
    /\ UNCHANGED <<w_video, w_sections, thread_quit>>

\* lines 775-776 of _delete_workspace
TargetWorkspace(remaining) ==
    IF remaining # {} THEN FirstWorkspace(remaining) ELSE "temp"

\* _delete_workspace, lines 746-769.  Without a directory a message box and
\* nothing else; otherwise the user picks a directory and confirms; rmtree
\* raises, which ends the handler in the except branch, or removes the
\* directory.  The thread of the worker runs on between the calls of the
\* handler, so the handler is followed call by call.
DeleteWorkspace ==
    /\ ui_pc = "idle"
    /\ IF dirs = {}
       THEN /\ notice' = NO_WORKSPACE
            /\ UNCHANGED <<dirs, ui_pc, ui_ws>>
       ELSE \E workspace \in dirs :
               \/ /\ notice' = DELETE_FAILED
                  /\ UNCHANGED <<dirs, ui_pc, ui_ws>>
               \/ /\ dirs' = dirs \ {workspace}
                  /\ ui_pc' = "rmtree_done"
                  /\ ui_ws' = workspace
                  /\ notice' = "none"
    /\ UNCHANGED <<db, next_id, active_workspace, current_segment, worker_thread,
                   generate_btn, w_pc, w_prev, w_code, w_resp, signal, playing,
                   w_job_dir, w_video, w_sections, thread_quit>>

\* line 770, and the end of the handler when another workspace is active
DeleteWorkspaceData ==
    /\ ui_pc = "rmtree_done"
    /\ db' = delete_workspace_data(db, ui_ws)
    /\ IF ui_ws = active_workspace
       THEN /\ ui_pc' = "data_deleted"
            /\ ui_ws' = ui_ws
       ELSE /\ ui_pc' = "idle"
            /\ ui_ws' = NoWorkspace
    /\ UNCHANGED <<next_id, dirs, active_workspace, current_segment, worker_thread,
                   generate_btn, w_pc, w_prev, w_code, w_resp, signal, playing, notice,
                   w_job_dir, w_video, w_sections, thread_quit>>

\* lines 774-779: the directories are listed again, the first of them or
\* "temp" becomes the active workspace, and a message box says so
DeleteWorkspaceSwitch ==
    /\ ui_pc = "data_deleted"
    /\ LET target_workspace == TargetWorkspace(dirs)
       IN /\ active_workspace' = target_workspace
          /\ dirs' = _set_active_workspace_dirs(dirs, target_workspace)
    /\ notice' = WORKSPACE_DELETED
    /\ ui_pc' = "idle"
    /\ ui_ws' = NoWorkspace
    /\ UNCHANGED <<db, next_id, current_segment, worker_thread, generate_btn, w_pc,
                   w_prev, w_code, w_resp, signal, playing, w_job_dir, w_video,
                   w_sections, thread_quit>>

\* mutant: the running thread is not looked at
Mutant_no_running_check(thread) == TRUE

\* whether line 875 lets the request through
WorkerIdle(thread) == thread # "running"

\* a click on the generate button, with a prompt typed in; model_name_set
\* tells whether the model name field of the selected AI mode holds a name.
\* Without a name the handler stays in the message box of line 918 or 922,
\* which runs an event loop of its own, with the button disabled.  max_id
\* bounds the ids that create_segment hands out.
OnGenerate(max_id) ==
    /\ ui_pc = "idle"
    /\ generate_btn
    /\ \E model_name_set \in BOOLEAN :
        IF ~WorkerIdle(worker_thread)
        THEN /\ notice' = BUSY
             /\ UNCHANGED <<db, next_id, dirs, active_workspace, current_segment,
                            worker_thread, generate_btn, w_pc, w_prev, w_code,
                            w_resp, signal, playing, w_job_dir, ui_pc, ui_ws>>
        ELSE /\ next_id <= max_id
             /\ LET previous_code_str == get_latest_cumulative_code(db, active_workspace)
                    rows == create_segment(db, next_id, active_workspace)
                IN /\ db' = rows
                   /\ next_id' = next_id + 1
                   /\ current_segment' =
                         [id |-> next_id, workspace |-> active_workspace,
                          segment_index |-> NextSegmentIndex(db, active_workspace)]
                   /\ dirs' = dirs \cup {active_workspace}
                   /\ generate_btn' = FALSE
                   /\ IF ~model_name_set
                      THEN /\ notice' = NEED_MODEL
                           /\ ui_pc' = "need_model_box"
                           /\ UNCHANGED <<worker_thread, w_pc, w_prev, w_code, w_resp,
                                          w_job_dir>>
                      ELSE /\ notice' = "none"
                           /\ ui_pc' = ui_pc
                           /\ worker_thread' = "running"
                           /\ w_pc' = "started"
                           /\ w_prev' = previous_code_str
                           /\ w_code' = EmptyText
                           /\ w_resp' = EmptyText
                           /\ w_job_dir' = active_workspace
             /\ UNCHANGED <<active_workspace, signal, playing, ui_ws>>
    /\ UNCHANGED <<w_video, w_sections, thread_quit>>

\* lines 919-920 and 923-924 of _on_generate, after the message box about
\* the model name was closed
OnGenerateAbort ==
    /\ ui_pc = "need_model_box"
    /\ generate_btn' = TRUE
    /\ ui_pc' = "idle"
    /\ UNCHANGED <<db, next_id, dirs, active_workspace, current_segment, worker_thread,
                   w_pc, w_prev, w_code, w_resp, signal, playing, notice, w_job_dir,
                   ui_ws>>
    /\ UNCHANGED <<w_video, w_sections, thread_quit>>

\* line 937 of _on_failed: the message box opens and runs an event loop of
\* its own until the user closes it
OnFailed ==
    /\ ui_pc = "idle"
    /\ signal.type = "failed"
    /\ notice' = signal.message
    /\ ui_pc' = "failed_box"
    /\ UNCHANGED <<db, next_id, dirs, active_workspace, current_segment, worker_thread,
                   generate_btn, w_pc, w_prev, w_code, w_resp, signal,
                   playing, w_job_dir, ui_ws>>
    /\ UNCHANGED <<w_video, w_sections, thread_quit>>

\* lines 938-949 of _on_failed, after the message box was closed
OnFailedCleanup ==
    /\ ui_pc = "failed_box"
    /\ db' = IF current_segment # NoSegment
             THEN delete_segment(db, current_segment.id) ELSE db
    /\ generate_btn' = TRUE
    /\ current_segment' = NoSegment
    /\ signal' = NoSignal
    /\ ui_pc' = "idle"
    /\ w_prev' = IF w_pc = "none" THEN EmptyText ELSE w_prev
    /\ w_job_dir' = IF w_pc = "none" THEN NoWorkspace ELSE w_job_dir
    /\ UNCHANGED <<next_id, dirs, active_workspace, worker_thread, w_pc, w_code, w_resp, playing, notice, ui_ws>>
    /\ UNCHANGED <<w_video, w_sections, thread_quit>>

\* mutant: the index is used as a 1-based position
Mutant_resolve_off_by_one(segment_index, video_path, section_videos) ==
    IF segment_index = 0 THEN video_path
    ELSE IF section_videos # <<>>
    THEN LET sorted_videos == sorted(section_videos)
         IN IF segment_index <= Len(sorted_videos)
            THEN SectionPath(sorted_videos[segment_index])
            ELSE SectionPath(sorted_videos[Len(sorted_videos)])
    ELSE NoPath

\* mutant: round 0 is looked up among the sections like any other round
Mutant_resolve_no_first_round(segment_index, video_path, section_videos) ==
    IF section_videos # <<>>
    THEN LET sorted_videos == sorted(section_videos)
         IN IF segment_index < Len(sorted_videos)
            THEN SectionPath(sorted_videos[segment_index + 1])
            ELSE SectionPath(sorted_videos[Len(sorted_videos)])
    ELSE NoPath

\* mutant: without sections the whole-program video is taken
Mutant_resolve_falls_back_to_whole(segment_index, video_path, section_videos) ==
    IF segment_index = 0 THEN video_path
    ELSE IF section_videos # <<>>
    THEN LET sorted_videos == sorted(section_videos)
         IN IF segment_index < Len(sorted_videos)
            THEN SectionPath(sorted_videos[segment_index + 1])
            ELSE SectionPath(sorted_videos[Len(sorted_videos)])
    ELSE video_path

\* lines 958-968: the file of the round
ResolveSectionVideo(segment_index, video_path, section_videos) ==
    IF segment_index = 0 THEN video_path
    ELSE IF section_videos # <<>>
    THEN LET sorted_videos == sorted(section_videos)
             idx == segment_index
         IN IF idx < Len(sorted_videos)
            THEN SectionPath(sorted_videos[idx + 1])
            ELSE SectionPath(sorted_videos[Len(sorted_videos)])
    ELSE NoPath
OnFinished ==
    /\ ui_pc = "idle"
    /\ signal.type = "finished"
    /\ IF current_segment # NoSegment
       THEN LET section_video_path ==
                    ResolveSectionVideo(current_segment.segment_index,
                                        signal.video_path, signal.section_videos)
            IN /\ db' = update_segment_render(db, current_segment.id,
                                              signal.manim_code, section_video_path)
               /\ \E exists \in BOOLEAN :
                     playing' = IF section_video_path # NoPath /\ exists
                                THEN section_video_path ELSE playing
       ELSE UNCHANGED <<db, playing>>
    /\ generate_btn' = TRUE
    /\ current_segment' = NoSegment
    /\ signal' = NoSignal
    /\ notice' = "none"
    /\ UNCHANGED <<next_id, dirs, active_workspace, worker_thread, w_pc, w_prev, w_code, w_resp, w_job_dir, ui_pc, ui_ws>>
    /\ UNCHANGED <<w_video, w_sections, thread_quit>>

\* the play button of a row of the history list: nothing is played when the
\* row has no path or its file is not there
PlaySegment ==
    /\ ui_pc = "idle"
    /\ \E r \in RowsOf(db, active_workspace) :
       \E exists \in BOOLEAN :
        /\ playing' = IF r.section_video_path # NoPath /\ exists
                      THEN r.section_video_path ELSE playing
        /\ notice' = "none"
        /\ UNCHANGED <<db, next_id, dirs, active_workspace, current_segment, worker_thread,
                       generate_btn, w_pc, w_prev, w_code, w_resp, signal,
                       w_job_dir, ui_pc, ui_ws>>
    /\ UNCHANGED <<w_video, w_sections, thread_quit>>

\* _on_media_status at EndOfMedia while a playback is active: with a last
\* frame the player is stopped and its source cleared, without one the
\* source stays.  The status change is delivered by any event loop of the
\* main thread.
OnMediaStatus ==
    /\ ui_pc \in {"idle", "failed_box", "need_model_box"}
    /\ playing # NoPath
    /\ \E last_frame \in BOOLEAN :
          playing' = IF last_frame THEN NoPath ELSE playing
    /\ UNCHANGED <<db, next_id, dirs, active_workspace, current_segment, worker_thread,
                   generate_btn, w_pc, w_prev, w_code, w_resp, signal,
                   notice, w_job_dir, ui_pc, ui_ws>>
    /\ UNCHANGED <<w_video, w_sections, thread_quit>>

\* ------------------------------------------------------------------------
\* The application
\* ------------------------------------------------------------------------

\* What a start of the program finds: the rows of the segments table, the
\* next AUTOINCREMENT id, the stored name of the active workspace and the
\* directories under jobs_dir.  The table is what earlier sessions and
\* _migrate_tables left in it.  A row holds no text (a round that was
\* interrupted, a history row without a code), the text of a first round or
\* the text of a continuation round, and no path, the whole-program video
\* or a section file; _migrate_tables copies code and path of a history row
\* as they are, so every text goes with every path at every index.
StoredTexts ==
    LET first == ensure_section_addition(EmptyText, sanitize_code(P0, EmptyText))
    IN {EmptyText, first, ensure_section_addition(first, sanitize_code(F1, first))}
StoredPaths == {NoPath, WholePath} \cup {SectionPath(k) : k \in SectionNames}
StoredContents ==
    [workspace : Workspaces, cumulative_code : StoredTexts,
     section_video_path : StoredPaths]
\* the index of the stored row of id i: the rows of its workspace before it
\* (create_segment counts on from the highest index, _on_failed deletes the
\* row of the highest index, _migrate_tables counts from 0)
StoredIndex(ids, table, i) ==
    Cardinality({j \in ids : j < i /\ table[j].workspace = table[i].workspace})
StoredRows(ids, table) ==
    {[id |-> i, workspace |-> table[i].workspace,
      segment_index |-> StoredIndex(ids, table, i),
      cumulative_code |-> table[i].cumulative_code,
      section_video_path |-> table[i].section_video_path] : i \in ids}

\* main and MainWindow.__init__: the table is read as it is stored, with
\* the ids that are left of those handed out so far, the active workspace
\* is the stored setting, nothing runs and nothing plays
Init ==
    /\ \E ids \in SUBSET (1..MaxSegmentId) :
       \E table \in [ids -> StoredContents] :
          /\ db = StoredRows(ids, table)
          /\ next_id \in {n \in 1..(MaxSegmentId + 1) : \A i \in ids : i < n}
    /\ dirs \in SUBSET Workspaces
    /\ active_workspace \in Workspaces
    /\ current_segment = NoSegment
    /\ worker_thread = "none"
    /\ generate_btn = TRUE
    /\ w_pc = "none"
    /\ w_prev = EmptyText
    /\ w_code = EmptyText
    /\ w_resp = EmptyText
    /\ signal = NoSignal
    /\ playing = NoPath
    /\ notice = "none"
    /\ w_job_dir = NoWorkspace
    /\ w_video = NoPath
    /\ w_sections = <<>>
    /\ thread_quit = FALSE
    /\ ui_pc = "idle"
    /\ ui_ws = NoWorkspace

Next ==
    \/ OnGenerate(MaxSegmentId)
    \/ OnGenerateAbort
    \/ WorkerGenerate(AppContents)
    \/ WorkerAssemble
    \/ WorkerRenderStart
    \/ WorkerWriteScript
    \/ WorkerStartManim
    \/ ManimWrites
    \/ WorkerManimReturns
    \/ WorkerFindSections
    \/ WorkerEmitFinished
    \/ OnFailed
    \/ OnFailedCleanup
    \/ OnFinished
    \/ ThreadQuit
    \/ ThreadExit
    \/ SwitchWorkspace
    \/ DeleteWorkspace
    \/ DeleteWorkspaceData
    \/ DeleteWorkspaceSwitch
    \/ PlaySegment
    \/ OnMediaStatus

Spec == Init /\ [][Next]_vars

\* ------------------------------------------------------------------------
\* The sessions that begin at the first start of the program: no database
\* file, no settings, no job directory.  They are followed one round
\* further than the sessions that begin on a stored table.
\* ------------------------------------------------------------------------

InitFirstStart ==
    /\ Init
    /\ db = {}
    /\ next_id = 1
    /\ dirs = {}
    /\ active_workspace = "default"

NextFirstStart ==
    \/ OnGenerate(MaxFirstStartId)
    \/ OnGenerateAbort
    \/ WorkerGenerate(AppContents)
    \/ WorkerAssemble
    \/ WorkerRenderStart
    \/ WorkerWriteScript
    \/ WorkerStartManim
    \/ ManimWrites
    \/ WorkerManimReturns
    \/ WorkerFindSections
    \/ WorkerEmitFinished
    \/ OnFailed
    \/ OnFailedCleanup
    \/ OnFinished
    \/ ThreadQuit
    \/ ThreadExit
    \/ SwitchWorkspace
    \/ DeleteWorkspace
    \/ DeleteWorkspaceData
    \/ DeleteWorkspaceSwitch
    \/ PlaySegment
    \/ OnMediaStatus

SpecFirstStart == InitFirstStart /\ [][NextFirstStart]_vars

\* ------------------------------------------------------------------------
\* The assembler under test: a worker that was started on a previous text
\* which earlier rounds produced, and a content of the generation service
\* ------------------------------------------------------------------------

FirstRound(content) == ensure_section_addition(EmptyText, sanitize_code(content, EmptyText))
ContinuationRound(previous, content) ==
    ensure_section_addition(previous, sanitize_code(content, previous))

\* the texts round 0 persists: those the renderer accepts
Round0Texts == {t \in {FirstRound(p) : p \in Programs} : extract_scene_class(t) # ""}
ChainFragments == {F1, F2, << <<"b = 2">> >>}
\* the texts of the rounds completed so far, oldest first
PrevChains ==
    {<<>>} \cup {<<t>> : t \in Round0Texts}
           \cup {<<t, ContinuationRound(t, f)>> : t \in Round0Texts, f \in ChainFragments}

InitAsm ==
    \E chain \in PrevChains :
        /\ db = {[id |-> i, workspace |-> "default", segment_index |-> i - 1,
                  cumulative_code |-> chain[i],
                  section_video_path |-> IF i = 1 THEN WholePath ELSE NoPath]
                    : i \in 1..Len(chain)}
                \cup {[id |-> Len(chain) + 1, workspace |-> "default",
                       segment_index |-> Len(chain),
                       cumulative_code |-> EmptyText, section_video_path |-> NoPath]}
        /\ next_id = Len(chain) + 2
        /\ dirs = {"default"}
        /\ active_workspace = "default"
        /\ current_segment = [id |-> Len(chain) + 1, workspace |-> "default",
                              segment_index |-> Len(chain)]
        /\ worker_thread = "running"
        /\ generate_btn = FALSE
        /\ w_pc = "started"
        /\ w_prev = IF chain = <<>> THEN EmptyText ELSE chain[Len(chain)]
        /\ w_code = EmptyText
        /\ w_resp = EmptyText
        /\ signal = NoSignal
        /\ playing = NoPath
        /\ notice = "none"
        /\ w_job_dir = "default"
        /\ w_video = NoPath
        /\ w_sections = <<>>
        /\ thread_quit = FALSE
        /\ ui_pc = "idle"
        /\ ui_ws = NoWorkspace

NextAsm ==
    \/ WorkerGenerate(AsmContents)
    \/ WorkerAssemble

SpecAsm == InitAsm /\ [][NextAsm]_vars

\* ------------------------------------------------------------------------
\* Notions the claims are stated in
\* ------------------------------------------------------------------------

Assembled == w_pc = "assembled"
ContinuationMode == Strip(w_prev) # EmptyText
FirstRoundMode == Strip(w_prev) = EmptyText

\* the non-blank lines of a text, in order
NonBlankLines(text) == SelectSeq(text, LAMBDA l : ~IsBlank(l))

\* the lines of a text that open a scene class at the top level (column 0)
TopLevelSceneDecls(text) ==
    SelectSeq(text, LAMBDA l : Len(l) >= 1 /\ IsSceneClassTok(l[1]))

\* all scene declarations of a text, wherever they stand
SceneDeclCount(text) == CountTok(text, CLASS_S) + CountTok(text, CLASS_T)

\* The body of the construct method of a text: the lines after the first
\* signature line, up to the first non-blank line that is not indented
\* deeper than the signature.
ConstructLine(text) ==
    LET defs == {i \in 1..Len(text) : HasTok(text[i], DEF_CONSTRUCT)}
    IN IF defs = {} THEN 0 ELSE Min(defs)
ConstructBodyEnd(text) ==
    LET d == ConstructLine(text)
        out == {i \in (d + 1)..Len(text) :
                   ~IsBlank(text[i]) /\ LeadingWs(text[i]) <= LeadingWs(text[d])}
    IN IF out = {} THEN Len(text) ELSE Min(out) - 1
\* its non-blank lines, the comment lines of the assembler apart
ConstructBody(text) ==
    IF ConstructLine(text) = 0 THEN <<>>
    ELSE SelectSeq(SubSeq(text, ConstructLine(text) + 1, ConstructBodyEnd(text)),
                   LAMBDA l : ~IsBlank(l) /\ l # Ind(8) \o <<COMMENT_LINE>>)

DirectiveLine == Ind(8) \o <<NEXT_SECTION>>

\* ------------------------------------------------------------------------
\* Claims about the assembler (SpecAsm)
\* ------------------------------------------------------------------------

\* C1: in a continuation round (non-empty previous text), whatever the
\* generator returned, the assembled text holds exactly one more
\* self.next_section() than the previous text.
C1_DirectiveCountGrowsByOne ==
    (Assembled /\ ContinuationMode)
        => CountTok(w_code, NEXT_SECTION) = CountTok(w_prev, NEXT_SECTION) + 1

\* C2: no text that ensure_section_addition returns, and no text persisted
\* for a round, has a line containing the sentinel.
C2_NoSentinelInProgramText ==
    /\ Assembled => ~TextHasTok(w_code, SECTION_MARKER)
    /\ \A r \in db : ~TextHasTok(r.cumulative_code, SECTION_MARKER)

\* a continuation round whose generator echoed the sentinel more than once
C2_Witness ==
    /\ Assembled
    /\ ContinuationMode
    /\ CountTok(w_resp, SECTION_MARKER) >= 2
    /\ TextHasTok(w_code, NEXT_SECTION)

\* C3: in a first round (empty previous text) the assembled text holds no
\* sentinel and no self.next_section(): the lines of the sanitized content
\* that contain one of them are dropped, the others are kept, none is added.
C3_FirstRoundHasNoDirective ==
    (Assembled /\ FirstRoundMode)
        => /\ ~TextHasTok(w_code, SECTION_MARKER)
           /\ ~TextHasTok(w_code, NEXT_SECTION)
           /\ Len(NonBlankLines(w_code)) =
                 Len(SelectSeq(NonBlankLines(sanitize_code(w_resp, w_prev)),
                               LAMBDA l : ~HasTok(l, SECTION_MARKER)
                                          /\ ~HasTok(l, NEXT_SECTION)))

\* a first round whose generator echoed both the sentinel and a directive
\* inside a scene program
C3_Witness ==
    /\ Assembled
    /\ FirstRoundMode
    /\ TextHasTok(w_resp, SECTION_MARKER)
    /\ TextHasTok(w_resp, NEXT_SECTION)
    /\ extract_scene_class(w_code) # ""

\* the content lines of a fragment that starts with the sentinel line: the
\* non-blank lines after it, without their own indentation
FragmentContent ==
    LET rest == NonBlankLines(Tail(w_resp))
        kept == SelectSeq(rest, LAMBDA l : ~HasTok(l, SECTION_MARKER))
    IN [i \in 1..Len(kept) |-> StripLine(kept[i])]
FragmentStartsWithSentinel ==
    /\ Len(w_resp) >= 2
    /\ StripLine(w_resp[1]) = <<SECTION_MARKER>>
    /\ FragmentContent # <<>>

\* C4: when the construct method of the previous text has a body and the
\* fragment is the sentinel line followed by content, the construct body of
\* the assembled text is the previous body lines, then self.next_section()
\* once at 8 spaces, then the new content lines (the comment line apart).
C4_ContentSplicedIntoConstructBody ==
    (Assembled /\ ContinuationMode /\ ConstructBody(w_prev) # <<>>
        /\ FragmentStartsWithSentinel)
        => LET body == ConstructBody(w_code)
               n == Len(ConstructBody(w_prev))
               m == Len(FragmentContent)
           IN /\ Len(body) = n + 1 + m
              /\ SubSeq(body, 1, n) = ConstructBody(w_prev)
              /\ body[n + 1] = DirectiveLine
              /\ \A i \in 1..m :
                    /\ StripLine(body[n + 1 + i]) = FragmentContent[i]
                    /\ LeadingWs(body[n + 1 + i]) >= 8
              /\ CountTok(w_code, NEXT_SECTION) = CountTok(w_prev, NEXT_SECTION) + 1

\* C5 as stated: with one top-level scene declaration in the previous text,
\* the assembled text holds exactly one scene declaration, the same one.
C5_ExactlyOneSceneDecl ==
    (Assembled /\ ContinuationMode /\ Len(TopLevelSceneDecls(w_prev)) = 1)
        => /\ SceneDeclCount(w_code) = 1
           /\ TopLevelSceneDecls(w_code) = TopLevelSceneDecls(w_prev)

\* C5 amended: with one top-level scene declaration in the previous text,
\* the assembled text holds exactly one top-level scene declaration, the
\* same one as in the previous text, whatever the fragment.
C5_OneTopLevelSceneDecl ==
    (Assembled /\ ContinuationMode /\ Len(TopLevelSceneDecls(w_prev)) = 1)
        => /\ Len(TopLevelSceneDecls(w_code)) = 1
           /\ TopLevelSceneDecls(w_code) = TopLevelSceneDecls(w_prev)

\* a fragment without the sentinel that carries a scene declaration
C5_Witness ==
    /\ Assembled
    /\ ContinuationMode
    /\ Len(TopLevelSceneDecls(w_prev)) = 1
    /\ ~TextHasTok(w_resp, SECTION_MARKER)
    /\ TextHasTok(w_resp, CLASS_T)
    /\ SceneDeclCount(w_code) = 2

\* ------------------------------------------------------------------------
\* Claims about the rounds of the application (Spec; C6 and C9 under
\* SpecFirstStart, where a workspace gets as far as its third round)
\* ------------------------------------------------------------------------

\* a step of _on_finished, and the record of the round it handles
Finishes == signal.type = "finished" /\ signal' = NoSignal /\ current_segment # NoSegment
RoundRows(rows) == {r \in rows : r.id = current_segment.id}
RenderedFiles == {signal.section_videos[k] : k \in 1..Len(signal.section_videos)}
\* the file at position pos (from 0) of a set of files ordered by name
FileAt(files, pos) == CHOOSE f \in files : Cardinality({g \in files : g < f}) = pos

\* C6: for a round of index i >= 1 and n >= 1 section files, the file that
\* _on_finished records is the one at position i of the files ordered by
\* name when i < n, and the last one when i >= n.
C6_SectionFileAtClampedIndex ==
    [][(Finishes /\ current_segment.segment_index >= 1 /\ RenderedFiles # {})
          => \A r \in RoundRows(db') :
                LET i == current_segment.segment_index
                    n == Cardinality(RenderedFiles)
                IN r.section_video_path =
                      SectionPath(FileAt(RenderedFiles, IF i < n THEN i ELSE n - 1))]_vars

\* records of rounds 1 and 2 that got a section file: one by position, one
\* by the clamp to the last file (of at most two files)
C6_Witness ==
    /\ \E r \in db : r.segment_index = 1 /\ r.section_video_path = SectionPath(2)
    /\ \E r \in db : r.segment_index = 2 /\ r.section_video_path = SectionPath(1)

\* C7: for a round of index 0 the file that _on_finished records is the
\* video path of the render result, the whole-program output as the render
\* pass reports it, whatever the section files are.
C7_FirstRoundGetsWholeVideo ==
    [][(Finishes /\ current_segment.segment_index = 0)
          => \A r \in RoundRows(db') : r.section_video_path = signal.video_path]_vars

\* the record of a round 0 that finished since the start of the program:
\* the row made last, with a worker thread
C7_Witness ==
    \E r \in db :
        /\ r.id = next_id - 1
        /\ worker_thread # "none"
        /\ r.segment_index = 0
        /\ r.cumulative_code # EmptyText
        /\ r.section_video_path = WholePath

\* C8: for a round of index >= 1 and no section file, the record keeps the
\* full program text, its file path is empty, and no playback is started.
C8_NoSectionNoPlayback ==
    [][(Finishes /\ current_segment.segment_index >= 1 /\ RenderedFiles = {})
          => /\ playing' = playing
             /\ \A r \in RoundRows(db') :
                   /\ r.cumulative_code = signal.manim_code
                   /\ r.cumulative_code # EmptyText
                   /\ r.section_video_path = NoPath]_vars

\* the record of a continuation round that rendered without a section file
\* since the start of the program: the row made last, with a worker thread
C8_Witness ==
    \E r \in db :
        /\ r.id = next_id - 1
        /\ worker_thread # "none"
        /\ r.segment_index >= 1
        /\ r.cumulative_code # EmptyText
        /\ r.section_video_path = NoPath

\* the full text of the most recently successfully completed round of a
\* workspace: the non-empty text of the highest index, empty if there is none
LastSuccessfulText(rows, workspace) ==
    LET done == {r \in RowsOf(rows, workspace) : r.cumulative_code # EmptyText} IN
    IF done = {} THEN EmptyText
    ELSE (CHOOSE r \in done : \A q \in done : q.segment_index <= r.segment_index)
            .cumulative_code

WorkerStarts == next_id' # next_id /\ w_pc' = "started"

\* C9: when a round starts, the previous text handed to the worker is the
\* full text of the most recently successfully completed round of the
\* workspace, as it was before the record of the new round was created.
C9_PreviousTextIsLastSuccess ==
    [][WorkerStarts => w_prev' = LastSuccessfulText(db, active_workspace)]_vars

\* C10: while a worker thread is running, a generate request creates no
\* record and starts no worker; a worker starts only when none is in flight.
C10_OneWorkerInFlight ==
    [][/\ worker_thread = "running"
            => /\ next_id' = next_id
               /\ {r.id : r \in db'} \subseteq {r.id : r \in db}
               /\ (w_pc' = "started" => w_pc = "started")
       /\ WorkerStarts => (w_pc = "none" /\ signal = NoSignal)]_vars

\* a generate request was turned down while the thread was still running
C10_Witness ==
    /\ notice = BUSY
    /\ worker_thread = "running"
    /\ generate_btn

\* ------------------------------------------------------------------------
\* Claims about unsuccessful rounds, the record log and the worker (Spec;
\* C11 under SpecFirstStart)
\* ------------------------------------------------------------------------

\* a step of _on_generate that creates the record of a round and starts no
\* worker, and a step of _on_failed for the round in flight
RoundAborts == next_id' # next_id /\ w_pc' # "started"
RoundFails == signal.type = "failed" /\ signal' = NoSignal /\ current_segment # NoSegment

\* C11: when a round ends without success, by the failure of its worker or
\* by the abort of _on_generate after its record was created, no record of
\* that round remains.
C11_NoRecordOfUnsuccessfulRound ==
    [][/\ RoundFails => ~\E r \in db' : r.id = current_segment.id
       /\ RoundAborts => ~\E r \in db' : r.id = next_id]_vars

\* a round is in flight from the start of its worker until its signal is handled
InFlight ==
    w_pc \in RunPositions \/ signal # NoSignal

\* C12: while a round is in flight the text of its record is empty; a text
\* gets into a record only by _on_finished, which writes the text of the
\* finished signal, emitted after the render pass, into the record of the
\* round; _on_failed deletes the record of the round and leaves the
\* other records as they are.
C12_TextPersistedOnlyAfterRender ==
    /\ [](InFlight => \A r \in db :
                        r.id = current_segment.id => r.cumulative_code = EmptyText)
    /\ [][/\ \A r \in db' :
                r.cumulative_code # EmptyText
                   => \/ r \in db
                      \/ /\ signal.type = "finished"
                         /\ r.id = current_segment.id
                         /\ r.cumulative_code = signal.manim_code
          /\ RoundFails => db' = {r \in db : r.id # current_segment.id}]_vars

\* round 0 has its text, the second round failed and its record is gone
C12_Witness ==
    /\ notice \in FailureMessages
    /\ next_id = 3
    /\ signal = NoSignal
    /\ \E r \in db : r.id = 1 /\ r.cumulative_code # EmptyText
    /\ \A r \in db : r.id = 1

\* C13: when the assembled text holds no scene declaration, the worker
\* ends with failed and the message of extract_scene_class, raised before
\* the script is written and before manim is started; _on_failed then
\* removes the record of the round, so its text is never persisted, and the
\* latest text of the workspace is the one the round started from.
C13_NoSceneFailsBeforeRender ==
    /\ [][(w_pc = "assembled" /\ w_pc' # w_pc /\ SceneDeclCount(w_code) = 0)
             => /\ w_pc' = "done"
                /\ signal' = FailedSignal(NO_SCENE)
                /\ dirs' = dirs]_vars
    /\ [][(RoundFails /\ signal.message = NO_SCENE)
             => /\ db' = {r \in db : r.id # current_segment.id}
                /\ (\E r \in db : r.id = current_segment.id)
                      => get_latest_cumulative_code(db', current_segment.workspace) = w_prev]_vars

\* a round without a scene declaration has failed and was handled, while
\* the text of an earlier round is still on record
C13_Witness ==
    /\ notice = NO_SCENE
    /\ signal = NoSignal
    /\ current_segment = NoSegment
    /\ \E r \in db : r.cumulative_code # EmptyText
    /\ \A r \in db : r.cumulative_code # EmptyText

\* C14: in every reachable state the round indices of the records of a
\* workspace are pairwise distinct and are exactly 0..n-1, n the number of
\* its records.
C14_IndicesGapFree ==
    \A w \in Workspaces :
        LET rs == RowsOf(db, w) IN
        /\ \A r, q \in rs : r.segment_index = q.segment_index => r = q
        /\ {r.segment_index : r \in rs} = 0..(Cardinality(rs) - 1)

\* every id was handed out, the record that was created last was deleted
\* by _on_failed, and the one before it is on record at index 0
C14_Witness ==
    /\ next_id = MaxSegmentId + 1
    /\ notice \in FailureMessages
    /\ signal = NoSignal
    /\ current_segment = NoSegment
    /\ \A r \in db : r.workspace = "default" /\ r.id = 1
    /\ Cardinality(db) = 1
    /\ "temp" \notin dirs

\* ------------------------------------------------------------------------
\* The application under the scheduling of the worker thread: the thread
\* runs RenderWorker.run to its end (the calls of the provider and of manim
\* have timeouts).  RunPending is the enabling condition of RunStep, so the
\* condition is weak fairness of RunStep.
\* ------------------------------------------------------------------------

RunStep ==
    \/ WorkerGenerate(AppContents)
    \/ WorkerAssemble
    \/ WorkerRenderStart
    \/ WorkerWriteScript
    \/ WorkerStartManim
    \/ WorkerManimReturns
    \/ WorkerFindSections
    \/ WorkerEmitFinished
RunPending == w_pc \in RunPositions

SpecLive == Spec /\ ([]<>(~RunPending) \/ []<><<RunStep>>_vars)

\* the positions a run may go to from a position
RunSuccessors(pc) ==
    CASE pc = "started" -> {"started", "generated", "done"}
      [] pc = "generated" -> {"generated", "assembled"}
      [] pc = "assembled" -> {"assembled", "job_dir_made", "done"}
      [] pc = "job_dir_made" -> {"job_dir_made", "script_written", "done"}
      [] pc = "script_written" -> {"script_written", "rendering", "done"}
      [] pc = "rendering" -> {"rendering", "manim_done", "done"}
      [] pc = "manim_done" -> {"manim_done", "rendered", "done"}
      [] pc = "rendered" -> {"rendered", "done"}
      [] pc = "done" -> {"done", "none"}
      [] OTHER -> {"none", "started"}

\* C15: a run emits a signal only in the step that ends it, and that step
\* emits exactly one of finished and failed; a run that has not ended goes
\* only forward, and nothing takes it out of its course or stops its thread;
\* the handling of the signal clears the current round and enables the
\* generate button; and every started run leads to a state where it has
\* ended and its signal is queued for the handler.
C15_WorkerEndsWithOneSignal ==
    /\ [][/\ (signal' # signal /\ signal' # NoSignal)
                => /\ signal = NoSignal
                   /\ w_pc \in {"started", "assembled", "job_dir_made", "script_written",
                                "rendering", "manim_done", "rendered"}
                   /\ w_pc' = "done"
          /\ (w_pc # "done" /\ w_pc' = "done")
                => signal'.type \in {"finished", "failed"}
          /\ w_pc' \in RunSuccessors(w_pc)
          /\ RunPending => worker_thread' = "running"
          /\ (signal # NoSignal /\ signal' = NoSignal)
                => (current_segment' = NoSegment /\ generate_btn')]_vars
    /\ (w_pc = "started")
          ~> (w_pc = "done" /\ signal.type \in {"finished", "failed"})

\* a run has ended by failed while the text of a finished round is on
\* record; its signal was handled, the round is cleared and the button is
\* enabled again
C15_Witness ==
    /\ notice \in FailureMessages
    /\ \E r \in db : r.cumulative_code # EmptyText
    /\ \A r \in db : r.id # next_id - 1
    /\ signal = NoSignal
    /\ w_pc = "done"
    /\ current_segment = NoSegment
    /\ generate_btn

\* ------------------------------------------------------------------------
\* Claims about the insertion point and the indentation (SpecAsm)
\* ------------------------------------------------------------------------

\* the last non-blank line of the construct body of a text, the signature
\* line if the body has none
LastBodyLine(text) ==
    LET d == ConstructLine(text)
        nb == {i \in (d + 1)..ConstructBodyEnd(text) : ~IsBlank(text[i])}
    IN IF nb = {} THEN d ELSE Max(nb)

\* C16: for a previous text with a construct method, the offset that
\* _find_construct_insert_position returns is immediately after the last
\* non-blank line of the body of that method, whatever follows the method.
C16_OffsetInsideConstructBody ==
    (Assembled /\ ContinuationMode /\ ConstructLine(w_prev) # 0)
        => _find_construct_insert_position(w_prev) = LastBodyLine(w_prev)

\* the response as ensure_section_addition cleans it, and the new content of
\* a response with the sentinel after the dedent
AsmCleaned == Strip(_strip_code_fences(sanitize_code(w_resp, w_prev)))
DedentedFragment == _remove_common_indent(AfterFirstMarker(AsmCleaned))
ExpectedContent ==
    [i \in 1..Len(DedentedFragment) |->
        IF IsBlank(DedentedFragment[i]) THEN <<>> ELSE Ind(8) \o DedentedFragment[i]]

\* C17: in a continuation round whose response holds the sentinel, the
\* lines after the directive block are the lines of the dedented fragment,
\* each non-blank one prefixed with 8 spaces: a line at indentation d of the
\* dedented fragment stands at indentation 8 + d.
C17_ContentPrefixedWithTargetIndent ==
    (Assembled /\ ContinuationMode
        /\ TextHasTok(AsmCleaned, SECTION_MARKER)
        /\ DedentedFragment # EmptyText
        /\ ~TextHasTok(DedentedFragment, SECTION_MARKER))
        => LET k == _find_construct_insert_position(w_prev) + 4
           IN SubSeq(w_code, k + 1, k + Len(DedentedFragment)) = ExpectedContent

\* a text with every non-blank line indented by n more spaces
IndentBy(text, n) ==
    [i \in 1..Len(text) |-> IF IsBlank(text[i]) THEN text[i] ELSE Ind(n) \o text[i]]

\* C18: in a continuation round the assembled text is the same as the one
\* assembled from the same response with every non-blank line indented by 4
\* more spaces, with or without the sentinel in the response.
C18_UniformIndentationIrrelevant ==
    (Assembled /\ ContinuationMode)
        => w_code = ContinuationRound(w_prev, IndentBy(w_resp, 4))

\* ---------------------------------------------------------------------------
\* round index against the assembled text (SpecFirstStart)
\* ---------------------------------------------------------------------------

\* C19: every stored full program text holds as many section-break
\* directives as the index of the round that produced it, after any sequence
\* of successful, failed and aborted rounds.
C19_DirectiveCountEqualsRoundIndex ==
    \A r \in db :
        r.cumulative_code # EmptyText
            => CountTok(r.cumulative_code, NEXT_SECTION) = r.segment_index


\* C20: a round in flight is assembled in first-round mode exactly when its
\* round index is 0: the emptiness of the previous text handed to the worker
\* and the index of the round's record agree, after any sequence of
\* successful, failed and aborted rounds.
C20_FirstRoundModeIffIndexZero ==
    w_pc \in RunPositions
        => (FirstRoundMode <=> current_segment.segment_index = 0)

\* ------------------------------------------------------------------------
\* Claims about the locator, the splice and the fence stripper (SpecAsm)
\* ------------------------------------------------------------------------

\* the construct method of a text has at least one body line
HasBodyLines(text) ==
    ConstructLine(text) # 0 /\ LastBodyLine(text) > ConstructLine(text)

\* C21: for a previous text whose construct method has body lines, the
\* offset of _find_construct_insert_position is strictly greater than the
\* (0-based) index of the last body line and at most the number of lines.
C21_OffsetAfterLastBodyLine ==
    (Assembled /\ ContinuationMode /\ HasBodyLines(w_prev))
        => /\ _find_construct_insert_position(w_prev) > LastBodyLine(w_prev) - 1
           /\ _find_construct_insert_position(w_prev) <= Len(w_prev)

\* the non-blank lines of a text without their surrounding whitespace, the
\* lines that hold the sentinel apart (the finalization deletes those)
ContentOf(text) ==
    LET kept == SelectSeq(text, LAMBDA l : ~IsBlank(l) /\ ~HasTok(l, SECTION_MARKER))
    IN [i \in 1..Len(kept) |-> StripLine(kept[i])]

\* what stands after the first sentinel of a text: the rest of its line and
\* the lines below it
RECURSIVE RestOfLine(_)
RestOfLine(line) ==
    IF Head(line) = SECTION_MARKER THEN Tail(line) ELSE RestOfLine(Tail(line))
RECURSIVE BelowSentinel(_)
BelowSentinel(text) ==
    IF HasTok(Head(text), SECTION_MARKER)
    THEN <<RestOfLine(Head(text))>> \o Tail(text)
    ELSE BelowSentinel(Tail(text))

\* the lines the assembler put in after the four lines that open the block
InsertedContent ==
    LET k == _find_construct_insert_position(w_prev)
    IN SubSeq(w_code, k + 5, Len(w_code) - (Len(w_prev) - k))

\* C22: in a continuation round the new content is the text after the first
\* sentinel of the fragment when the fragment holds the sentinel, and the
\* whole fragment when it does not; nothing that stands before the sentinel
\* is inserted.
C22_ContentIsTextAfterFirstSentinel ==
    (Assembled /\ ContinuationMode)
        => ContentOf(InsertedContent)
             = IF TextHasTok(AsmCleaned, SECTION_MARKER)
               THEN ContentOf(BelowSentinel(AsmCleaned))
               ELSE ContentOf(AsmCleaned)

C22_Witness ==
    /\ Assembled /\ ContinuationMode
    /\ TextHasTok(AsmCleaned, SECTION_MARKER)
    /\ ~HasTok(AsmCleaned[1], SECTION_MARKER)
    /\ ~IsBlank(AsmCleaned[1])
    /\ ContentOf(InsertedContent) # <<>>

\* the text of a continuation round after the splice, before finalization
Spliced == SplicedText(w_prev, AsmCleaned)
\* the (1-based) line of the spliced text where the assembler put its sentinel
AssemblerSentinelLine == _find_construct_insert_position(w_prev) + 3

\* C23: finalization rewrites the sentinel line the assembler inserted to
\* self.next_section() behind the same leading whitespace, deletes every
\* other line that holds the sentinel, and leaves all other lines as they
\* are, in order.
C23_AssemblerSentinelBecomesDirective ==
    (Assembled /\ ContinuationMode)
        => LET k == AssemblerSentinelLine
               marked == [Spliced EXCEPT ![k] =
                            SubSeq(Spliced[k], 1, LeadingWs(Spliced[k])) \o <<NEXT_SECTION>>]
           IN /\ Spliced[k] = Ind(8) \o <<SECTION_MARKER>>
              /\ w_code = SelectSeq(marked, LAMBDA l : ~HasTok(l, SECTION_MARKER))
              /\ w_code[k] = DirectiveLine

C23_Witness ==
    /\ Assembled /\ ContinuationMode
    /\ Cardinality({i \in 1..Len(Spliced) : HasTok(Spliced[i], SECTION_MARKER)}) >= 2
    /\ Len(w_code) < Len(Spliced)
    /\ w_code[AssemblerSentinelLine] = DirectiveLine
    /\ ContentOf(InsertedContent) # <<>>

\* C24: a continuation round only inserts. The assembled text is the
\* previous text up to the offset of the locator, then a blank line, the
\* comment line, the directive line, a blank line and the content lines,
\* then the rest of the previous text, every line of it unmodified.
C24_AssemblyOnlyInserts ==
    (Assembled /\ ContinuationMode)
        => LET k == _find_construct_insert_position(w_prev)
               n == Len(w_code) - Len(w_prev)
           IN /\ n >= 4
              /\ SubSeq(w_code, 1, k) = SubSeq(w_prev, 1, k)
              /\ SubSeq(w_code, k + 1, k + 4)
                   = << <<>>, Ind(8) \o <<COMMENT_LINE>>, DirectiveLine, <<>> >>
              /\ SubSeq(w_code, k + n + 1, Len(w_code))
                   = SubSeq(w_prev, k + 1, Len(w_prev))

C24_Witness ==
    /\ Assembled /\ ContinuationMode
    /\ _find_construct_insert_position(w_prev) \in 1..(Len(w_prev) - 1)
    /\ Len(w_code) > Len(w_prev) + 4
    /\ NonBlankLines(SubSeq(w_prev, _find_construct_insert_position(w_prev) + 1,
                            Len(w_prev))) # <<>>
    /\ TextHasTok(w_code, "b = 2")

\* lines 221 and 236-240: the fragment dedented by _remove_common_indent,
\* then re-indented to the 8-space target
Normalize(text) == Join(IndentedContent(_remove_common_indent(text)))

\* C25: normalizing a fragment twice gives the same lines as normalizing it
\* once.
C25_NormalizeIdempotent ==
    Assembled => Normalize(Normalize(w_resp)) = Normalize(w_resp)

\* C26: when the signature line of the previous text is followed by no body
\* line, the offset of the locator is the one right after the signature
\* line; when no line holds the signature, the offset is the number of
\* lines, and the round is assembled all the same, the block going in at the
\* end of the text.
C26_LocatorFallbacks ==
    (Assembled /\ ContinuationMode)
        => LET k == _find_construct_insert_position(w_prev) IN
           /\ (ConstructLine(w_prev) # 0 /\ ~HasBodyLines(w_prev))
                 => k = ConstructLine(w_prev)
           /\ ConstructLine(w_prev) = 0
                 => /\ k = Len(w_prev)
                    /\ SubSeq(w_code, 1, k) = w_prev
                    /\ w_code[k + 3] = DirectiveLine

\* a line that begins with a fence, leading whitespace apart
IsFenceLine(line) == StartsWithFence(LStripLine(line))
\* the first non-blank line of a text opens a fence
OpensWithFence(text) ==
    NonBlankLines(text) # <<>> /\ IsFenceLine(Head(NonBlankLines(text)))
\* a text that opens with a fence and whose first non-blank line after the
\* opener, the closing fence apart, begins with a fence again
NestedFence(text) ==
    /\ OpensWithFence(text)
    /\ LET rest == Tail(NonBlankLines(text))
           inner == IF rest # <<>> /\ IsFenceLine(Last(rest)) THEN Front(rest) ELSE rest
       IN inner # <<>> /\ IsFenceLine(Head(inner))

\* C27 as stated: stripping the fences of any response twice gives what
\* stripping them once gives, and a response that does not open with a fence
\* is returned unchanged.
C27_StripFencesIdempotent ==
    Assembled
        => /\ _strip_code_fences(_strip_code_fences(w_resp)) = _strip_code_fences(w_resp)
           /\ ~OpensWithFence(w_resp) => _strip_code_fences(w_resp) = w_resp

\* C27, amended: the same, the first part for the responses in which no
\* second fence stands right behind the opener.
C27_StripFencesIdempotentUnlessNested ==
    Assembled
        => /\ ~NestedFence(w_resp)
                => _strip_code_fences(_strip_code_fences(w_resp))
                     = _strip_code_fences(w_resp)
           /\ ~OpensWithFence(w_resp) => _strip_code_fences(w_resp) = w_resp

C27_Witness ==
    /\ Assembled
    /\ OpensWithFence(w_resp) /\ ~NestedFence(w_resp)
    /\ IsFenceLine(Last(NonBlankLines(w_resp)))
    /\ TextHasTok(_strip_code_fences(w_resp), DEF_CONSTRUCT)
    /\ ~TextHasTok(_strip_code_fences(w_resp), FENCE)
    /\ _strip_code_fences(_strip_code_fences(w_resp)) = _strip_code_fences(w_resp)

\* an inner content between an opener line and a closer line
FencedBlock(inner) == << <<FENCE_PY>> >> \o inner \o << <<FENCE>> >>

\* C28 as stated: stripping the fenced block of any inner content gives
\* what stripping the inner content alone gives.
C28_FencedEqualsUnfenced ==
    Assembled
        => _strip_code_fences(FencedBlock(w_resp)) = _strip_code_fences(w_resp)

\* C28, amended: the same for the inner contents that do not themselves
\* open with a fence; both results are then the inner content.
C28_FencedEqualsUnfencedInner ==
    (Assembled /\ ~OpensWithFence(w_resp))
        => /\ _strip_code_fences(FencedBlock(w_resp)) = _strip_code_fences(w_resp)
           /\ _strip_code_fences(FencedBlock(w_resp)) = w_resp

C28_Witness ==
    /\ Assembled
    /\ ~OpensWithFence(w_resp)
    /\ TextHasTok(w_resp, DEF_CONSTRUCT)
    /\ FencedBlock(w_resp) \in FencedPrograms
    /\ _strip_code_fences(FencedBlock(w_resp)) = w_resp

\* ------------------------------------------------------------------------
\* Claims about the worker against the workspace actions (Spec; C30 under
\* SpecFirstStart)
\* ------------------------------------------------------------------------

\* the signal of a round is handled while another workspace is the active one
CompletesAfterSwitch ==
    /\ Finishes \/ RoundFails
    /\ active_workspace # current_segment.workspace

\* C29: when the active workspace was switched while the worker was in
\* flight, the completion touches the record of its own round only, in the
\* workspace where the round started: on success that record gets the text
\* of the worker, on failure it is deleted, and the records of the workspace
\* that is active now are left as they are.
C29_CompletionStaysInItsWorkspace ==
    [][CompletesAfterSwitch
          => /\ RowsOf(db', active_workspace) = RowsOf(db, active_workspace)
             /\ db \ RoundRows(db) = db' \ RoundRows(db')
             /\ \A r \in RoundRows(db) \cup RoundRows(db') :
                   r.workspace = current_segment.workspace
             /\ Finishes
                   => /\ {r.id : r \in db'} = {r.id : r \in db}
                      /\ \A r \in RoundRows(db') : r.cumulative_code = signal.manim_code
             /\ RoundFails => RoundRows(db') = {}]_vars

\* a finished signal waits to be handled for a round of the workspace temp
\* whose record is there, while default, which has a record, is active
C29_Witness ==
    /\ signal.type = "finished"
    /\ current_segment # NoSegment
    /\ active_workspace # current_segment.workspace
    /\ RowsOf(db, active_workspace) # {}
    /\ \E r \in db : r.id = current_segment.id /\ r.cumulative_code = EmptyText

\* C30: when the finished signal of a round is handled, the record of the
\* round is there and gets the text of the worker, whatever workspace
\* actions ran while the worker was in flight.
C30_FinishedRoundIsPersisted ==
    [][Finishes
          => \E r \in db' :
                /\ r.id = current_segment.id
                /\ r.cumulative_code = signal.manim_code]_vars
====
